---- MODULE Spec2Model ----
(***************************************************************************)
(* pypsh (src/pypsh/main.py): one invocation of the parallel ssh           *)
(* dispatcher.  The main process selects the hosts, starts one Executor    *)
(* process per host (start_procs), drains them and prints the result;     *)
(* every Executor runs _exec in its own process.  The steps of the main   *)
(* process and of the Executor processes interleave freely.               *)
(***************************************************************************)
EXTENDS Integers, Sequences, FiniteSets, TLC

\* Bounds of the model: the hosts of the store, and the lines a remote
\* command prints on either stream, summed over the hosts of the dispatch.
MaxHosts == 2
MaxLines == 2

\* Host identifiers of the known_hosts store.  The numbers stand for names
\* whose lexicographic order is the numeric order.
Hosts == 1..MaxHosts

\* Exception classes by the except clause of _exec that receives them:
\* IOError (line 60), the paramiko exceptions (line 63), anything else.
Exc == {"IOError", "SSHException", "Other"}

\* -i/--interval: 0 is the default 0.0, 1 stands for any interval > 0.0.
Intervals == {0, 1}

\* Invocation forms: "pypsh <regex> <command>" (len(sys.argv) == 3) and the
\* argparse sub-commands cmd and copy.
Forms == {"oneshot", "cmd", "copy"}

\* Process.exitcode and the exit status of the main process: <<>> is None,
\* <<c>> the code c.
None == <<>>
Code(c) == <<c>>

VARIABLES
    form,       \* how the program was invoked
    interval,   \* args.interval
    interp,     \* the interpreter behind "#!/usr/bin/env python": "py2" | "py3"
    pc,         \* position of the main process
    hosts,      \* the list get_hosts returned (selection order)
    idx,        \* position of the running for loop of start_procs (1-based)
    processes,  \* start_procs' list "processes" (hosts of the Executors)
    sigint,     \* the user interrupt of this invocation: "none", or the
                \* position of the main process when it was raised
    running,    \* the Executors that were alive when it was raised
    fatal,      \* the fatal error that ended the invocation, or "none"
    report,     \* what print_result printed: <<>> or <<[num_ok, failures]>>
    status,     \* exit status of the main process
    wpc,        \* per host: position of its Executor process
    exitcode,   \* per host: the local variable exitcode of _exec
    raised,     \* per host: the exception raised inside the try of _exec
    connected,  \* per host: client.connect succeeded
    closed,     \* per host: client.close() was called
    out,        \* per host: the lines the Executor printed, in order
    rstatus,    \* per host: the exit status of the remote command (never read)
    pexit,      \* per host: Process.exitcode
    keys,       \* get_hosts: the keys of the host store, in its order
    hostregex,  \* get_hosts: the pattern, a sequence of characters
    matched,    \* get_hosts: the list returned for keys and hostregex
    printed,    \* get_hosts: the host names printed to the user
    stdin,      \* the lines of standard input not yet read
    dispatched  \* the lines main has handed to cmd(), in order

\* What the program is given from outside, with what get_hosts and the read
\* loop of main make of it.
xvars == <<keys, hostregex, matched, printed, stdin, dispatched>>
ovars == <<xvars, form, interval, interp, pc, hosts, idx, processes, sigint,
           running, fatal, report, status>>
wvars == <<wpc, exitcode, raised, connected, closed, out, rstatus, pexit>>
vars == <<ovars, wvars>>

----------------------------------------------------------------------------
\* Helpers

\* The lists of distinct hosts: get_hosts walks the keys of the store, so no
\* host occurs twice; the order is the store's, not sorted.
RECURSIVE InjSeqs(_)
InjSeqs(S) ==
    {<<>>} \cup UNION {{<<h>> \o s : s \in InjSeqs(S \ {h})} : h \in S}

Selections == InjSeqs(Hosts)

\* "{0}: {1}".format(self.host, line): a printed line.  color is the
\* termcolor attribute, repr is "str" for a printed string and "tuple" for
\* the printed 2-tuple of line 64 (Python 2 print statement).
Line(h, stream, n, color, repr) ==
    [host |-> h, stream |-> stream, n |-> n, color |-> color, repr |-> repr]

\* The line starts with the host name: a printed string does, the text of a
\* printed tuple starts with "('".
HostPrefixed(l) == l.repr = "str"

Count(h, stream) ==
    Cardinality({i \in DOMAIN out[h] : out[h][i].stream = stream})

\* multiprocessing.Process.is_alive: started and not yet terminated.
Alive(h) == wpc[h] \notin {"unborn", "exited", "killed"}

\* multiprocessing.active_children(): every live child of the main process.
ActiveChildren == {h \in Hosts : Alive(h)}

\* Process.exitcode: None until the child has terminated.
ExitCode(h) == pexit[h]

\* sorted(..., key=lambda x: x.host) on a list of hosts.
RECURSIVE Insert(_, _)
Insert(h, s) ==
    IF s = <<>> THEN <<h>>
    ELSE IF h < Head(s) THEN <<h>> \o s
    ELSE <<Head(s)>> \o Insert(h, Tail(s))

RECURSIVE SortedByHost(_)
SortedByHost(s) ==
    IF s = <<>> THEN <<>> ELSE Insert(Head(s), SortedByHost(Tail(s)))

\* The test of line 144 taken for every interval, 0 included.
Throttled_always(iv) == iv >= 0

\* interval > 0.0 (line 144)
Throttled(iv) == iv > 0

\* Where the for loop of line 141 goes with its index at i: the next host,
\* or the drain loop of line 149 after the last one.
LoopPc(i) == IF i <= Len(hosts) THEN "launch" ELSE "while"

Final == {"done", "aborted", "crashed"}

----------------------------------------------------------------------------
Init ==
    /\ form \in Forms
    /\ interval \in (IF form = "oneshot" THEN {0} ELSE Intervals)
    /\ interp \in {"py2", "py3"}
    /\ pc = "get_hosts"
    /\ hosts = <<>>
    /\ idx = 1
    /\ processes = <<>>
    /\ sigint = "none"
    /\ running = {}
    /\ fatal = "none"
    /\ report = <<>>
    /\ status = None
    /\ wpc = [h \in Hosts |-> "unborn"]
    /\ exitcode = [h \in Hosts |-> 0]
    /\ raised = [h \in Hosts |-> "none"]
    /\ connected = [h \in Hosts |-> FALSE]
    /\ closed = [h \in Hosts |-> FALSE]
    /\ out = [h \in Hosts |-> <<>>]
    /\ rstatus = [h \in Hosts |-> 0]
    /\ pexit = [h \in Hosts |-> None]
    /\ keys = <<>>
    /\ hostregex = <<>>
    /\ matched = <<>>
    /\ printed = <<>>
    /\ stdin = <<>>
    /\ dispatched = <<>>

----------------------------------------------------------------------------
\* The main process

\* An uncaught exception ends the main process with a traceback, status 1.
Crash(why) ==
    /\ pc' = "crashed"
    /\ fatal' = why
    /\ status' = Code(1)

\* sys.exit(<message>), sys.exit(1) and the error exit of argparse (2).
Abort(why, c) ==
    /\ pc' = "aborted"
    /\ fatal' = why
    /\ status' = Code(c)

\* get_hosts: load the store, compile the pattern, collect the matches.
GetHosts ==
    /\ pc = "get_hosts"
    /\ \E store \in {"ok", "malformed", "unreadable"}, patternOK \in BOOLEAN,
          sel \in Selections :
          \/ /\ store = "unreadable"      \* IOError: not caught by line 105
             /\ Crash("StoreError")
             /\ UNCHANGED hosts
          \/ /\ store = "malformed"       \* SSHException: lines 105-107
             /\ IF interp = "py2"
                THEN Abort("StoreError", 1)
                ELSE Crash("StoreError")  \* e.message: AttributeError
             /\ UNCHANGED hosts
          \/ /\ store = "ok"
             /\ ~patternOK                \* lines 111-112
             /\ Abort("PatternError", 1)
             /\ UNCHANGED hosts
          \/ /\ store = "ok"
             /\ patternOK
             /\ hosts' = sel
             /\ pc' = "dispatch"
             /\ UNCHANGED <<fatal, status>>
    /\ UNCHANGED <<xvars, form, interval, interp, idx, processes, sigint, running,
                   report>>
    /\ UNCHANGED wvars

\* copy without the sys.exit(1) of line 170: the message is printed and the
\* copy goes on.
Dispatch_nofailfast ==
    /\ pc = "dispatch"
    /\ \/ /\ form = "oneshot"
          /\ IF hosts # <<>>
             THEN pc' = "start_procs" /\ UNCHANGED <<fatal, status>>
             ELSE Abort("usage", 2)
       \/ /\ form = "cmd"
          /\ pc' = "start_procs"
          /\ UNCHANGED <<fatal, status>>
       \/ /\ form = "copy"
          /\ \E sourceIsFile \in BOOLEAN :
                /\ pc' = "start_procs"
                /\ fatal' = IF sourceIsFile THEN fatal
                            ELSE "LocalPreconditionError"
                /\ UNCHANGED status
    /\ UNCHANGED <<xvars, form, interval, interp, hosts, idx, processes, sigint,
                   running, report>>
    /\ UNCHANGED wvars

\* What main and dispatch do with the selection.
Dispatch ==
    /\ pc = "dispatch"
    /\ \/ /\ form = "oneshot"            \* lines 231-233
          /\ IF hosts # <<>>
             THEN pc' = "start_procs" /\ UNCHANGED <<fatal, status>>
             ELSE Abort("usage", 2)       \* falls through to parse_args
       \/ /\ form = "cmd"                \* lines 183-184
          /\ pc' = "start_procs"
          /\ UNCHANGED <<fatal, status>>
       \/ /\ form = "copy"               \* lines 186, 168-170
          /\ \E sourceIsFile \in BOOLEAN :
                IF sourceIsFile
                THEN pc' = "start_procs" /\ UNCHANGED <<fatal, status>>
                ELSE Abort("LocalPreconditionError", 1)
    /\ UNCHANGED <<xvars, form, interval, interp, hosts, idx, processes, sigint,
                   running, report>>
    /\ UNCHANGED wvars

\* start_procs, lines 137-140: read ~/.ssh/config, processes = [].
ReadConfig ==
    /\ pc = "start_procs"
    /\ \E configOK \in BOOLEAN :
          IF configOK
          THEN /\ pc' = LoopPc(1)
               /\ idx' = 1
               /\ processes' = <<>>
               /\ UNCHANGED <<fatal, status>>
          ELSE /\ Crash("ConfigError")    \* IOError of open()
               /\ UNCHANGED <<idx, processes>>
    /\ UNCHANGED <<xvars, form, interval, interp, hosts, sigint, running, report>>
    /\ UNCHANGED wvars

\* Lines 142-144 (and 147 when the interval is 0): create the Executor of
\* the next host and start its process, which enters _exec.
Launch ==
    /\ pc = "launch"
    /\ LET h == hosts[idx] IN
          /\ wpc' = [wpc EXCEPT ![h] = "connect"]
          /\ exitcode' = [exitcode EXCEPT ![h] = 0]
          /\ IF Throttled(interval)
             THEN /\ pc' = "join"
                  /\ UNCHANGED <<idx, processes>>
             ELSE /\ processes' = Append(processes, h)
                  /\ idx' = idx + 1
                  /\ pc' = LoopPc(idx + 1)
    /\ UNCHANGED <<xvars, form, interval, interp, hosts, sigint, running, fatal,
                   report, status>>
    /\ UNCHANGED <<raised, connected, closed, out, rstatus, pexit>>

\* A join that raises in the main process when the child has failed.
Join_raises ==
    /\ pc = "join"
    /\ ~Alive(hosts[idx])
    /\ IF ExitCode(hosts[idx]) = Code(0)
       THEN pc' = "interval_sleep" /\ UNCHANGED <<fatal, status>>
       ELSE Crash("ChildFailed")
    /\ UNCHANGED <<xvars, form, interval, interp, hosts, idx, processes, sigint,
                   running, report>>
    /\ UNCHANGED wvars

\* Join without the wait for the process: the join of line 145 left out.
Join_nowait ==
    /\ pc = "join"
    /\ pc' = "interval_sleep"
    /\ UNCHANGED <<xvars, form, interval, interp, hosts, idx, processes, sigint,
                   running, fatal, report, status>>
    /\ UNCHANGED wvars

\* Line 145: process.join() returns once the process has terminated.
Join ==
    /\ pc = "join"
    /\ ~Alive(hosts[idx])
    /\ pc' = "interval_sleep"
    /\ UNCHANGED <<xvars, form, interval, interp, hosts, idx, processes, sigint,
                   running, fatal, report, status>>
    /\ UNCHANGED wvars

\* The append of line 147 missing after the sleep.
IntervalSleep_noappend ==
    /\ pc = "interval_sleep"
    /\ idx' = idx + 1
    /\ pc' = LoopPc(idx + 1)
    /\ UNCHANGED <<xvars, form, interval, interp, hosts, processes, sigint, running,
                   fatal, report, status>>
    /\ UNCHANGED wvars

\* Lines 146-147: sleep(interval); processes.append(process).
IntervalSleep ==
    /\ pc = "interval_sleep"
    /\ processes' = Append(processes, hosts[idx])
    /\ idx' = idx + 1
    /\ pc' = LoopPc(idx + 1)
    /\ UNCHANGED <<xvars, form, interval, interp, hosts, sigint, running, fatal,
                   report, status>>
    /\ UNCHANGED wvars

\* The drain loop testing the list processes instead of the live children.
WhileActive_recorded ==
    /\ pc = "while"
    /\ pc' = IF processes # <<>> THEN "sleep" ELSE "print_result"
    /\ UNCHANGED <<xvars, form, interval, interp, hosts, idx, processes, sigint,
                   running, fatal, report, status>>
    /\ UNCHANGED wvars

\* The drain loop left at once, whatever is still alive.
WhileActive_nowait ==
    /\ pc = "while"
    /\ pc' = "print_result"
    /\ UNCHANGED <<xvars, form, interval, interp, hosts, idx, processes, sigint,
                   running, fatal, report, status>>
    /\ UNCHANGED wvars

\* Line 149: while multiprocessing.active_children().
WhileActive ==
    /\ pc = "while"
    /\ pc' = IF ActiveChildren # {} THEN "sleep" ELSE "print_result"
    /\ UNCHANGED <<xvars, form, interval, interp, hosts, idx, processes, sigint,
                   running, fatal, report, status>>
    /\ UNCHANGED wvars

\* Lines 150-151: sleep(0.3) returns.
DrainSleep ==
    /\ pc = "sleep"
    /\ pc' = "while"
    /\ UNCHANGED <<xvars, form, interval, interp, hosts, idx, processes, sigint,
                   running, fatal, report, status>>
    /\ UNCHANGED wvars

\* A try block around the whole of start_procs' loops.
InTry_wide(p) == p \in {"launch", "join", "interval_sleep", "while", "sleep"}

\* Lines 150-151: the try block holds the sleep and nothing else.
InTry(p) == p = "sleep"

\* The user interrupt: KeyboardInterrupt is raised in the main process at
\* its current position.  Only the sleep of line 151 is inside the try.
Interrupt ==
    /\ sigint = "none"
    /\ pc \notin Final
    /\ sigint' = pc
    /\ running' = ActiveChildren
    /\ IF InTry(pc)
       THEN /\ idx' = 1                   \* lines 152-153
            /\ pc' = IF processes = <<>> THEN "print_result" ELSE "cancel"
            /\ UNCHANGED <<fatal, status>>
       ELSE /\ Crash("KeyboardInterrupt")
            /\ UNCHANGED idx
    /\ UNCHANGED <<xvars, form, interval, interp, hosts, processes, report>>
    /\ UNCHANGED wvars

\* A stop() that raises when the process has already terminated.
Stop_raises ==
    /\ pc = "cancel"
    /\ LET h == processes[idx] IN
          IF Alive(h)
          THEN /\ wpc' = [wpc EXCEPT ![h] = "signalled"]
               /\ idx' = idx + 1
               /\ pc' = IF idx < Len(processes) THEN "cancel"
                        ELSE "print_result"
               /\ UNCHANGED <<fatal, status>>
          ELSE /\ Crash("OSError")
               /\ UNCHANGED <<wpc, idx>>
    /\ UNCHANGED <<xvars, form, interval, interp, hosts, processes, sigint, running,
                   report>>
    /\ UNCHANGED <<exitcode, raised, connected, closed, out, rstatus, pexit>>

\* Lines 153-155, one iteration: processes[idx].stop(), which is
\* Process.terminate(); after the last one, break.
Stop ==
    /\ pc = "cancel"
    /\ LET h == processes[idx] IN
          wpc' = [wpc EXCEPT ![h] = IF Alive(h) THEN "signalled" ELSE @]
    /\ idx' = idx + 1
    /\ pc' = IF idx < Len(processes) THEN "cancel" ELSE "print_result"
    /\ UNCHANGED <<xvars, form, interval, interp, hosts, processes, sigint, running,
                   fatal, report, status>>
    /\ UNCHANGED <<exitcode, raised, connected, closed, out, rstatus, pexit>>

\* print_result, lines 127-129.
NumOk(procs) ==
    Cardinality({i \in DOMAIN procs : ExitCode(procs[i]) = Code(0)})

\* A failure taken to be exit code 1 only.
IsFailure_one(h) == ExitCode(h) = Code(1)

\* p.exitcode != 0 (line 128)
IsFailure(h) == ExitCode(h) # Code(0)

\* [p for p in processes if p.exitcode != 0]
RECURSIVE Failed(_)
Failed(procs) ==
    IF procs = <<>> THEN <<>>
    ELSE IF IsFailure(Head(procs)) THEN <<Head(procs)>> \o Failed(Tail(procs))
    ELSE Failed(Tail(procs))

\* The failures in the order of the list processes, sorted() left out.
Failures_unsorted(procs) == Failed(procs)

\* Lines 128-129: the failures sorted by host.
Failures(procs) == SortedByHost(Failed(procs))

\* The result printed, then an exit status that tells of failures.
PrintResult_propagates ==
    /\ pc = "print_result"
    /\ report' = <<[num_ok |-> NumOk(processes),
                    failures |-> Failures(processes)]>>
    /\ pc' = IF form = "stdin" THEN "select" ELSE "done"
    /\ status' = Code(IF Failures(processes) = <<>> THEN 0 ELSE 1)
    /\ UNCHANGED <<xvars, form, interval, interp, hosts, idx, processes, sigint,
                   running, fatal>>
    /\ UNCHANGED wvars

\* Lines 164/178 and 126-133, then the main process ends with status 0;
\* in the read loop of main (lines 222-225) cmd() returns to the loop.
PrintResult ==
    /\ pc = "print_result"
    /\ report' = <<[num_ok |-> NumOk(processes),
                    failures |-> Failures(processes)]>>
    /\ pc' = IF form = "stdin" THEN "select" ELSE "done"
    /\ status' = IF form = "stdin" THEN status ELSE Code(0)
    /\ UNCHANGED <<xvars, form, interval, interp, hosts, idx, processes, sigint,
                   running, fatal>>
    /\ UNCHANGED wvars

----------------------------------------------------------------------------
\* One Executor process (host h)

\* The handlers with client.close() on the normal path only, not in finally.
Raise_noclose(h, e) ==
    /\ raised' = [raised EXCEPT ![h] = e]
    /\ wpc' = [wpc EXCEPT ![h] = "return"]
    /\ CASE e = "IOError" ->
              /\ out' = [out EXCEPT ![h] =
                            Append(@, Line(h, "except", 0, "red", "str"))]
              /\ exitcode' = [exitcode EXCEPT ![h] = 1]
         [] e = "SSHException" /\ interp = "py2" ->
              /\ out' = [out EXCEPT ![h] =
                            Append(@, Line(h, "except", 0, "none", "tuple"))]
              /\ exitcode' = [exitcode EXCEPT ![h] = 1]
         [] OTHER ->
              UNCHANGED <<out, exitcode>>

\* What the except clauses of lines 60-65 and the finally of line 66 do with
\* an exception e raised inside the try.
Raise(h, e) ==
    /\ raised' = [raised EXCEPT ![h] = e]
    /\ wpc' = [wpc EXCEPT ![h] = "finally"]
    /\ CASE e = "IOError" ->                                \* lines 60-62
              /\ out' = [out EXCEPT ![h] =
                            Append(@, Line(h, "except", 0, "red", "str"))]
              /\ exitcode' = [exitcode EXCEPT ![h] = 1]
         [] e = "SSHException" /\ interp = "py2" ->         \* lines 63-65
              /\ out' = [out EXCEPT ![h] =
                            Append(@, Line(h, "except", 0, "none", "tuple"))]
              /\ exitcode' = [exitcode EXCEPT ![h] = 1]
         [] OTHER ->
              \* Python 3: e.message raises AttributeError in line 64; like
              \* any exception no clause matches, it is discarded by the
              \* return of the finally block.
              UNCHANGED <<out, exitcode>>

\* Lines 49-51: client.connect(...)
Connect(h) ==
    /\ wpc[h] = "connect"
    /\ \/ /\ wpc' = [wpc EXCEPT ![h] = "exec_command"]
          /\ connected' = [connected EXCEPT ![h] = TRUE]
          /\ UNCHANGED <<exitcode, raised, out>>
       \/ /\ \E e \in Exc : Raise(h, e)
          /\ UNCHANGED connected
    /\ UNCHANGED <<closed, rstatus, pexit>>
    /\ UNCHANGED ovars

\* Line 52: SSHExecutor.exec_command (line 79) starts the remote command,
\* CopyExecutor.exec_command (lines 91-94) transfers the file.
ExecCommand(h) ==
    /\ wpc[h] = "exec_command"
    /\ \/ /\ wpc' = [wpc EXCEPT ![h] = "stdout"]
          /\ \E s \in (IF form = "copy" THEN {0} ELSE {0, 1}) :
                rstatus' = [rstatus EXCEPT ![h] = s]
          /\ UNCHANGED <<exitcode, raised, out>>
       \/ /\ \E e \in Exc : Raise(h, e)
          /\ UNCHANGED rstatus
    /\ UNCHANGED <<connected, closed, pexit>>
    /\ UNCHANGED ovars

\* The lines one remote command may print on either stream: the hosts of
\* the dispatch share the MaxLines of the model.
LineBound == MaxLines \div Len(hosts)

\* The stream has another line: a remote command may print up to LineBound
\* lines on either stream, a copy yields ['Copied to <host>'] and [].
HasLine(h, stream) ==
    IF form = "copy"
    THEN stream = "stdout" /\ Count(h, stream) < 1
    ELSE Count(h, stream) < LineBound

\* The stream may end here: a list ends after its last element.
MayEnd(h, stream) ==
    IF form = "copy" THEN ~HasLine(h, stream) ELSE TRUE

\* Lines 53-55: one step of the loop over stdout.
Stdout(h) ==
    /\ wpc[h] = "stdout"
    /\ \/ /\ HasLine(h, "stdout")
          /\ out' = [out EXCEPT ![h] =
                Append(@, Line(h, "stdout", Count(h, "stdout") + 1,
                               "none", "str"))]
          /\ UNCHANGED <<wpc, exitcode, raised>>
       \/ /\ MayEnd(h, "stdout")
          /\ wpc' = [wpc EXCEPT ![h] = "stderr"]
          /\ UNCHANGED <<exitcode, raised, out>>
       \/ \E e \in Exc : Raise(h, e)
    /\ UNCHANGED <<connected, closed, rstatus, pexit>>
    /\ UNCHANGED ovars

\* The loop over stderr without line 59.
Stderr_noflag(h) ==
    /\ wpc[h] = "stderr"
    /\ \/ /\ HasLine(h, "stderr")
          /\ out' = [out EXCEPT ![h] =
                Append(@, Line(h, "stderr", Count(h, "stderr") + 1,
                               "red", "str"))]
          /\ UNCHANGED <<wpc, exitcode, raised>>
       \/ /\ MayEnd(h, "stderr")
          /\ wpc' = [wpc EXCEPT ![h] = "finally"]
          /\ UNCHANGED <<exitcode, raised, out>>
       \/ \E e \in Exc : Raise(h, e)
    /\ UNCHANGED <<connected, closed, rstatus, pexit>>
    /\ UNCHANGED ovars

\* The two streams read as their lines arrive: a stdout line may be printed
\* while stderr is being read.
Stderr_interleaved(h) ==
    /\ wpc[h] = "stderr"
    /\ \/ /\ HasLine(h, "stderr")
          /\ out' = [out EXCEPT ![h] =
                Append(@, Line(h, "stderr", Count(h, "stderr") + 1,
                               "red", "str"))]
          /\ exitcode' = [exitcode EXCEPT ![h] = 1]
          /\ UNCHANGED <<wpc, raised>>
       \/ /\ HasLine(h, "stdout")
          /\ out' = [out EXCEPT ![h] =
                Append(@, Line(h, "stdout", Count(h, "stdout") + 1,
                               "none", "str"))]
          /\ UNCHANGED <<wpc, exitcode, raised>>
       \/ /\ MayEnd(h, "stderr")
          /\ wpc' = [wpc EXCEPT ![h] = "finally"]
          /\ UNCHANGED <<exitcode, raised, out>>
       \/ \E e \in Exc : Raise(h, e)
    /\ UNCHANGED <<connected, closed, rstatus, pexit>>
    /\ UNCHANGED ovars

\* Lines 56-59: one step of the loop over stderr.
Stderr(h) ==
    /\ wpc[h] = "stderr"
    /\ \/ /\ HasLine(h, "stderr")
          /\ out' = [out EXCEPT ![h] =
                Append(@, Line(h, "stderr", Count(h, "stderr") + 1,
                               "red", "str"))]
          /\ exitcode' = [exitcode EXCEPT ![h] = 1]
          /\ UNCHANGED <<wpc, raised>>
       \/ /\ MayEnd(h, "stderr")
          /\ wpc' = [wpc EXCEPT ![h] = "finally"]
          /\ UNCHANGED <<exitcode, raised, out>>
       \/ \E e \in Exc : Raise(h, e)
    /\ UNCHANGED <<connected, closed, rstatus, pexit>>
    /\ UNCHANGED ovars

\* Lines 66-67: finally: client.close()
Finally(h) ==
    /\ wpc[h] = "finally"
    /\ closed' = [closed EXCEPT ![h] = TRUE]
    /\ wpc' = [wpc EXCEPT ![h] = "return"]
    /\ UNCHANGED <<exitcode, raised, connected, out, rstatus, pexit>>
    /\ UNCHANGED ovars

\* A finally block without the return: an exception no except clause has
\* handled leaves _exec and ends the process with a traceback, exit code 1.
Return_reraise(h) ==
    /\ wpc[h] = "return"
    /\ wpc' = [wpc EXCEPT ![h] = "exited"]
    /\ pexit' = [pexit EXCEPT ![h] =
          IF raised[h] = "Other" \/ (raised[h] = "SSHException" /\ interp = "py3")
          THEN Code(1) ELSE Code(exitcode[h])]
    /\ UNCHANGED <<exitcode, raised, connected, closed, out, rstatus>>
    /\ UNCHANGED ovars

\* Line 68 and line 34: return exitcode; sys.exit(<exitcode>).
Return(h) ==
    /\ wpc[h] = "return"
    /\ wpc' = [wpc EXCEPT ![h] = "exited"]
    /\ pexit' = [pexit EXCEPT ![h] = Code(exitcode[h])]
    /\ UNCHANGED <<exitcode, raised, connected, closed, out, rstatus>>
    /\ UNCHANGED ovars

\* Lines 30-31: the SIGTERM of terminate() ends the process; its exitcode is
\* the negated signal number.
Die(h) ==
    /\ wpc[h] = "signalled"
    /\ wpc' = [wpc EXCEPT ![h] = "killed"]
    /\ pexit' = [pexit EXCEPT ![h] = Code(-15)]
    /\ UNCHANGED <<exitcode, raised, connected, closed, out, rstatus>>
    /\ UNCHANGED ovars

----------------------------------------------------------------------------
Main ==
    \/ GetHosts
    \/ Dispatch
    \/ ReadConfig
    \/ Launch
    \/ Join
    \/ IntervalSleep
    \/ WhileActive
    \/ DrainSleep
    \/ Stop
    \/ PrintResult

Executor(h) ==
    \/ Connect(h)
    \/ ExecCommand(h)
    \/ Stdout(h)
    \/ Stderr(h)
    \/ Finally(h)
    \/ Return(h)
    \/ Die(h)

Next ==
    \/ Main
    \/ Interrupt
    \/ \E h \in Hosts : Executor(h)

Spec == Init /\ [][Next]_vars

\* An invocation the user does not interrupt, in which the main process and
\* every Executor process keep running while they can: each is a process of
\* its own, and an Executor that keeps running comes to the end of _exec.
UninterruptedMain ==
    \/ GetHosts
    \/ Dispatch
    \/ ReadConfig
    \/ Launch
    \/ Join
    \/ IntervalSleep
    \/ WhileActive
    \/ DrainSleep
    \/ PrintResult

UninterruptedExecutor(h) ==
    \/ Connect(h)
    \/ ExecCommand(h)
    \/ Stdout(h)
    \/ Stderr(h)
    \/ Finally(h)
    \/ Return(h)

UninterruptedNext ==
    \/ UninterruptedMain
    \/ \E h \in Hosts : UninterruptedExecutor(h)

LiveSpec ==
    /\ Init
    /\ [][UninterruptedNext]_vars
    /\ WF_vars(UninterruptedMain)
    /\ \A h \in Hosts : WF_vars(UninterruptedExecutor(h))


----------------------------------------------------------------------------
\* get_hosts on a store of named hosts (lines 108-123)

\* Bound of the model: the length of the pattern.
MaxPattern == 3

\* Host names and patterns are sequences of characters.
web == <<"w", "e", "b">>
web1 == <<"w", "e", "b", "1">>
web2 == <<"w", "e", "b", "2">>
db1 == <<"d", "b", "1">>
Names == {web, web1, web2, db1}

\* The stores: known_hosts holds each key once, in any order.
Stores == InjSeqs(Names)

\* The patterns: literal characters and the wildcard ".".
PatternChars == {"w", "e", "b", "d", "."}

RECURSIVE SeqsUpTo(_, _)
SeqsUpTo(S, n) ==
    IF n = 0 THEN {<<>>}
    ELSE SeqsUpTo(S, n - 1)
         \cup {Append(q, c) : q \in {r \in SeqsUpTo(S, n - 1) : Len(r) = n - 1},
                              c \in S}

Patterns == SeqsUpTo(PatternChars, MaxPattern)

\* ord(c): Python compares strings by the code points of their characters.
Ord(c) ==
    CASE c = "1" -> 49
      [] c = "2" -> 50
      [] c = "b" -> 98
      [] c = "d" -> 100
      [] c = "e" -> 101
      [] c = "w" -> 119

\* a < b on Python strings.
RECURSIVE StrLess(_, _)
StrLess(a, b) ==
    IF b = <<>> THEN FALSE
    ELSE IF a = <<>> THEN TRUE
    ELSE IF Head(a) = Head(b) THEN StrLess(Tail(a), Tail(b))
    ELSE Ord(Head(a)) < Ord(Head(b))

\* sorted(hosts) on a list of names (line 122).
RECURSIVE InsertName(_, _)
InsertName(k, s) ==
    IF s = <<>> THEN <<k>>
    ELSE IF StrLess(k, Head(s)) THEN <<k>> \o s
    ELSE <<Head(s)>> \o InsertName(k, Tail(s))

RECURSIVE SortedNames(_)
SortedNames(s) ==
    IF s = <<>> THEN <<>> ELSE InsertName(Head(s), SortedNames(Tail(s)))

\* A pattern that has to match the whole key.
ReMatch_full(p, key) ==
    /\ Len(p) = Len(key)
    /\ \A i \in 1..Len(p) : p[i] = "." \/ p[i] = key[i]

\* rex.match(key), line 114: the pattern is matched at the start of the key
\* and need not reach its end.
ReMatch(p, key) ==
    /\ Len(p) <= Len(key)
    /\ \A i \in 1..Len(p) : p[i] = "." \/ p[i] = key[i]

\* Lines 113-115: the keys that match, in the order of the store.
RECURSIVE Matching(_, _)
Matching(p, ks) ==
    IF ks = <<>> THEN <<>>
    ELSE IF ReMatch(p, Head(ks)) THEN <<Head(ks)>> \o Matching(p, Tail(ks))
    ELSE Matching(p, Tail(ks))

\* The main process and the Executors before anything has run.
Fresh ==
    /\ pc = "get_hosts"
    /\ hosts = <<>>
    /\ idx = 1
    /\ processes = <<>>
    /\ sigint = "none"
    /\ running = {}
    /\ fatal = "none"
    /\ report = <<>>
    /\ status = None
    /\ wpc = [h \in Hosts |-> "unborn"]
    /\ exitcode = [h \in Hosts |-> 0]
    /\ raised = [h \in Hosts |-> "none"]
    /\ connected = [h \in Hosts |-> FALSE]
    /\ closed = [h \in Hosts |-> FALSE]
    /\ out = [h \in Hosts |-> <<>>]
    /\ rstatus = [h \in Hosts |-> 0]
    /\ pexit = [h \in Hosts |-> None]

SelInit ==
    /\ form = "cmd"
    /\ interval = 0
    /\ interp \in {"py2", "py3"}
    /\ Fresh
    /\ keys \in Stores
    /\ hostregex \in Patterns
    /\ matched = <<>>
    /\ printed = <<>>
    /\ stdin = <<>>
    /\ dispatched = <<>>

\* get_hosts, lines 108-123, on a store that loads and a pattern that
\* compiles: collect the matches, print them sorted, return them as found.
SelectHosts ==
    /\ pc = "get_hosts"
    /\ matched' = Matching(hostregex, keys)
    /\ printed' = SortedNames(Matching(hostregex, keys))
    /\ pc' = "dispatch"
    /\ UNCHANGED <<keys, hostregex, stdin, dispatched>>
    /\ UNCHANGED <<form, interval, interp, hosts, idx, processes, sigint,
                   running, fatal, report, status>>
    /\ UNCHANGED wvars

SelSpec == SelInit /\ [][SelectHosts]_vars

----------------------------------------------------------------------------
\* main with a host pattern alone: commands read from standard input
\* (lines 219-227)

\* Bound of the model: the lines standard input holds.
MaxInput == 2

\* sys.stdin.readline() returns a line with its newline, an empty line as
\* "\n", and "" at the end of input only.
InputLines == {"ls\n", "\n"}
EndOfInput == ""

Inputs == SeqsUpTo(InputLines, MaxInput)

StdinInit ==
    /\ form = "stdin"
    /\ interval \in Intervals
    /\ interp \in {"py2", "py3"}
    /\ Fresh
    /\ keys = <<>>
    /\ hostregex = <<>>
    /\ matched = <<>>
    /\ printed = <<>>
    /\ stdin \in Inputs
    /\ dispatched = <<>>

\* Lines 219-221: get_hosts has returned; "if hosts:".
EnterLoop ==
    /\ pc = "dispatch"
    /\ form = "stdin"
    /\ pc' = IF hosts # <<>> THEN "select" ELSE "parse_args"
    /\ UNCHANGED <<xvars, form, interval, interp, hosts, idx, processes,
                   sigint, running, fatal, report, status>>
    /\ UNCHANGED wvars

\* Line 222: select with a timeout of 0 polls standard input; the loop goes
\* on when it is readable (a line has arrived, or it is at its end) and is
\* left when nothing has arrived yet.
Select ==
    /\ pc = "select"
    /\ \E ready \in BOOLEAN :
          pc' = IF ready THEN "readline" ELSE "parse_args"
    /\ UNCHANGED <<xvars, form, interval, interp, hosts, idx, processes,
                   sigint, running, fatal, report, status>>
    /\ UNCHANGED wvars

\* Lines 223-227: readline; a line that is not "" goes to cmd(hosts, line),
\* which builds new Executors in start_procs; "" is sys.exit(0).
ReadLine ==
    /\ pc = "readline"
    /\ LET line == IF stdin = <<>> THEN EndOfInput ELSE Head(stdin) IN
          IF line # ""
          THEN /\ stdin' = Tail(stdin)
               /\ dispatched' = Append(dispatched, line)
               /\ pc' = "start_procs"
               /\ report' = <<>>
               /\ wpc' = [h \in Hosts |-> "unborn"]
               /\ exitcode' = [h \in Hosts |-> 0]
               /\ raised' = [h \in Hosts |-> "none"]
               /\ connected' = [h \in Hosts |-> FALSE]
               /\ closed' = [h \in Hosts |-> FALSE]
               /\ out' = [h \in Hosts |-> <<>>]
               /\ rstatus' = [h \in Hosts |-> 0]
               /\ pexit' = [h \in Hosts |-> None]
               /\ UNCHANGED status
          ELSE /\ pc' = "done"
               /\ status' = Code(0)
               /\ UNCHANGED <<stdin, dispatched, report>>
               /\ UNCHANGED wvars
    /\ UNCHANGED <<keys, hostregex, matched, printed>>
    /\ UNCHANGED <<form, interval, interp, hosts, idx, processes, sigint,
                   running, fatal>>

\* Lines 228-229 reached from the read loop: argparse takes the pattern for
\* a subcommand and ends the program with its usage error.
ParseArgs ==
    /\ pc = "parse_args"
    /\ Abort("usage", 2)
    /\ UNCHANGED <<xvars, form, interval, interp, hosts, idx, processes,
                   sigint, running, report>>
    /\ UNCHANGED wvars

StdinMain ==
    \/ GetHosts
    \/ EnterLoop
    \/ Select
    \/ ReadLine
    \/ ParseArgs
    \/ ReadConfig
    \/ Launch
    \/ Join
    \/ IntervalSleep
    \/ WhileActive
    \/ DrainSleep
    \/ PrintResult

StdinNext ==
    \/ StdinMain
    \/ \E h \in Hosts : UninterruptedExecutor(h)

StdinSpec == StdinInit /\ [][StdinNext]_vars

----------------------------------------------------------------------------
\* Shorthands of the properties

Selected == {hosts[i] : i \in DOMAIN hosts}
Recorded == {processes[i] : i \in DOMAIN processes}
Started(h) == wpc[h] # "unborn"
Reported == report # <<>>
FailedHosts == {report[1].failures[i] : i \in DOMAIN report[1].failures}

\* The exit code _exec returns, from what the Executor itself read and raised.
OwnOutcome(h) ==
    IF \/ Count(h, "stderr") >= 1
       \/ raised[h] = "IOError"
       \/ raised[h] = "SSHException" /\ interp = "py2"
    THEN 1 ELSE 0

\* The drain loop of lines 149-155 has been reached.
PastLaunch == pc \in {"while", "sleep", "cancel", "print_result", "done"}

----------------------------------------------------------------------------
\* C1: with an interval > 0 the Executor of host i+1 is never started before
\* the Executor of host i has terminated (its exit code exists), so at most
\* one Executor is alive at any time.
C1_ThrottledSequential ==
    interval > 0 =>
        /\ Cardinality(ActiveChildren) <= 1
        /\ \A i \in 1..(Len(hosts) - 1) :
              Started(hosts[i + 1]) => ExitCode(hosts[i]) # None

\* The second Executor runs, the first has terminated on its own.
C1_Witness ==
    /\ interval > 0
    /\ Len(hosts) >= 2
    /\ wpc[hosts[1]] = "exited"
    /\ Alive(hosts[2])
    /\ pc = "join"

\* C2: with interval 0 the launch loop never waits for an Executor: the main
\* process is never at the join or the interval sleep, the launch step is
\* enabled whatever the Executors already started are doing, and every
\* selected host has its Executor started once the loop is left.
C2_ConcurrentLaunch ==
    interval = 0 =>
        /\ pc \notin {"join", "interval_sleep"}
        /\ pc = "launch" => ENABLED Launch
        /\ PastLaunch => \A h \in Selected : Started(h)

\* All Executors of a selection of MaxHosts hosts run at once, none of them
\* past its first step.
C2_Witness ==
    /\ interval = 0
    /\ Len(hosts) = MaxHosts
    /\ Len(hosts) >= 2
    /\ \A h \in Selected : wpc[h] = "connect"
    /\ pc = "while"

\* C3: in every printed result the number of successful invocations plus the
\* number of failures listed is the number of hosts selected.
C3_ReportCoversSelection ==
    Reported =>
        report[1].num_ok + Len(report[1].failures) = Len(hosts)

\* A result printed after a cancellation: one Executor had exited with 0,
\* one was stopped and has not been reaped yet (exitcode None).
C3_Witness ==
    /\ Reported
    /\ InTry(sigint)
    /\ Len(hosts) >= 2
    /\ report[1].num_ok = 1
    /\ \E h \in Selected : wpc[h] = "signalled"


\* C4: when the user interrupt arrives during the drain loop (lines 149-155),
\* the wait ends with a result, every Executor that was running at that
\* moment has been stopped and is listed as a failure, and every Executor
\* that had completed is listed as a failure iff its exit code is not 0.
C4_InterruptCancelsRunning ==
    (sigint \in {"while", "sleep"} /\ running # {}) =>
        /\ pc \in {"cancel", "print_result", "done"}
        /\ Reported =>
              /\ \A h \in running :
                    /\ wpc[h] \in {"signalled", "killed"}
                    /\ h \in FailedHosts
              /\ \A h \in Recorded \ running :
                    h \in FailedHosts <=> pexit[h] # Code(0)

\* C5: an Executor that has read at least one stderr line exits with code 1,
\* whatever the exit status of the remote command, and is listed as a
\* failure in the result.
C5_StderrMeansFailure ==
    \A h \in Hosts :
        Count(h, "stderr") >= 1 =>
            /\ wpc[h] = "exited" => ExitCode(h) = Code(1)
            /\ (Reported /\ h \in Recorded) => h \in FailedHosts

\* The remote command ended with status 0 and wrote to stderr; nothing was
\* raised; the Executor exited with 1 and the result lists its host.
C5_Witness ==
    \E h \in Hosts :
        /\ Count(h, "stderr") >= 1
        /\ rstatus[h] = 0
        /\ form # "copy"
        /\ raised[h] = "none"
        /\ wpc[h] = "exited"
        /\ Reported
        /\ h \in FailedHosts

\* C6: an Executor in which connect, the operation or the reading of the
\* streams failed with an IOError or a paramiko exception printed exactly one
\* error line, prefixed with the host, exits with code 1 and is listed as a
\* failure.
C6_ErrorLineAndExitOne ==
    \A h \in Hosts :
        (raised[h] \in {"IOError", "SSHException"} /\ wpc[h] = "exited") =>
            /\ ExitCode(h) = Code(1)
            /\ Count(h, "except") = 1
            /\ \A i \in DOMAIN out[h] :
                  out[h][i].stream = "except" => HostPrefixed(out[h][i])
            /\ (Reported /\ h \in Recorded) => h \in FailedHosts

\* C7: the failure of one Executor changes neither the outcome of another
\* one nor the course of the dispatch: the exit code of an Executor that ran
\* to its end is decided by its own run alone, every selected host has its
\* Executor started once the launch loop is left, the main process is never
\* blocked except in the join on a live Executor, and a dispatch that has
\* started an Executor ends with the printed result unless the user
\* interrupted it.
C7_FailuresStayLocal ==
    /\ \A h \in Hosts : wpc[h] = "exited" => ExitCode(h) = Code(OwnOutcome(h))
    /\ PastLaunch => \A h \in Selected : Started(h)
    /\ pc \notin Final => (ENABLED Main \/ (pc = "join" /\ Alive(hosts[idx])))
    /\ (pc \in Final /\ \E h \in Hosts : Started(h)) =>
          \/ pc = "done" /\ Reported
          \/ fatal = "KeyboardInterrupt"

\* An uninterrupted dispatch to two hosts: the first Executor failed to
\* connect and exited with 1, the second ran after it and is the one
\* success of the result.
C7_Witness ==
    /\ sigint = "none"
    /\ pc = "done"
    /\ Len(hosts) >= 2
    /\ raised[hosts[1]] = "IOError"
    /\ ~connected[hosts[1]]
    /\ ExitCode(hosts[1]) = Code(1)
    /\ ExitCode(hosts[2]) = Code(0)
    /\ report[1].num_ok = 1
    /\ report[1].failures = <<hosts[1]>>

\* C8: an Executor that terminates on its own (not stopped by terminate())
\* has called client.close() before, whatever happened inside the try.
C8_SessionClosed ==
    \A h \in Hosts : wpc[h] \in {"return", "exited"} => closed[h]

\* An Executor whose operation failed on an open session has exited.
C8_Witness ==
    \E h \in Hosts :
        /\ wpc[h] = "exited"
        /\ connected[h]
        /\ raised[h] # "none"
        /\ Count(h, "stdout") = 0
        /\ closed[h]

\* C9: an invalid pattern, an unreadable or malformed known_hosts file or a
\* missing copy source ends the invocation with no Executor started and no
\* result printed.
C9_FatalBeforeLaunch ==
    fatal \in {"PatternError", "StoreError", "LocalPreconditionError"} =>
        /\ pc \in {"aborted", "crashed"}
        /\ \A h \in Hosts : ~Started(h)
        /\ ~Reported
        /\ status # Code(0)

\* The copy source is missing although hosts were selected.
C9_Witness ==
    /\ fatal = "LocalPreconditionError"
    /\ hosts # <<>>
    /\ pc = "aborted"

\* C10: the except clause of line 152 is entered from the drain loop only;
\* once it is entered the main process stops one Executor per step, is never
\* blocked, never ends in a crash and ends with the printed result.
C10_CancelledReports ==
    /\ [][(pc' = "cancel" /\ pc # "cancel") => pc \in {"while", "sleep"}]_vars
    /\ [][pc = "cancel" =>
            \/ pc' = "cancel" /\ idx' \in {idx, idx + 1}
            \/ pc' = "print_result" /\ idx' = Len(processes) + 1]_vars
    /\ [](InTry(sigint) =>
            /\ pc \in {"cancel", "print_result", "done"}
            /\ pc = "cancel" => idx \in 1..Len(processes)
            /\ pc # "done" => ENABLED Main
            /\ pc = "done" => Reported)

\* The result printed after an interrupt in the sleep of the drain loop.
C10_Witness ==
    /\ InTry(sigint)
    /\ pc = "done"
    /\ Reported
    /\ running # {}
    /\ \A h \in running : h \in FailedHosts

\* C11: without a user interrupt the result is printed only after every
\* Executor has terminated: when print_result runs none is alive and each
\* recorded one has an exit code.
C11_ReportAfterAllTerminated ==
    (sigint = "none" /\ pc \in {"print_result", "done"}) =>
        /\ ActiveChildren = {}
        /\ \A h \in Recorded : ExitCode(h) # None

\* A concurrent dispatch leaves the drain loop: both Executors have exited.
C11_Witness ==
    /\ sigint = "none"
    /\ pc = "print_result"
    /\ interval = 0
    /\ Len(processes) >= 2
    /\ \A h \in Recorded : wpc[h] = "exited"

\* C12: when no interrupt occurs and every Executor comes to its end, a
\* dispatch that has entered start_procs' loops, throttled or not, leaves
\* the drain loop and ends with the printed result.
C12_DispatchCompletes ==
    (pc \in {"launch", "join", "interval_sleep", "while", "sleep"})
        ~> (pc = "done" /\ Reported)

\* The main process sleeps in the drain loop while two Executors run.
C12_Witness ==
    /\ pc = "sleep"
    /\ Len(processes) >= 2
    /\ \A h \in Recorded : Alive(h)

\* C13: in every printed result the recorded Executors are the selected
\* hosts, one each, and no Executor was started for another host.
C13_OneExecutorPerHost ==
    Reported =>
        /\ processes = hosts
        /\ \A h \in Hosts : Started(h) <=> h \in Selected

\* A throttled dispatch to one of the two stored hosts.
C13_Witness ==
    /\ Reported
    /\ interval > 0
    /\ Len(hosts) = 1
    /\ processes = hosts
    /\ \E h \in Hosts : ~Started(h)

\* C14: the failures of the printed result are in ascending order of host.
C14_FailuresSorted ==
    Reported =>
        \A i, j \in DOMAIN report[1].failures :
            i < j => report[1].failures[i] < report[1].failures[j]

\* Launched in descending order, completed in launch order, both failed.
C14_Witness ==
    /\ Reported
    /\ Len(hosts) >= 2
    /\ hosts[1] > hosts[2]
    /\ processes = hosts
    /\ report[1].failures = <<hosts[2], hosts[1]>>

\* C15: an invocation whose result was printed ends with status 0, whether
\* none, some or all of the Executors failed.
C15_StatusIgnoresFailures ==
    pc = "done" => (Reported /\ status = Code(0))

\* "pypsh <regex> <command>" with every Executor failed.
C15_Witness ==
    /\ pc = "done"
    /\ form = "oneshot"
    /\ Len(hosts) >= 2
    /\ report[1].num_ok = 0
    /\ Len(report[1].failures) = Len(hosts)
    /\ status = Code(0)

\* C16: with a host pattern alone each line read from standard input is
\* dispatched to the matched hosts, in input order, and an empty line or the
\* end of input ends the program with nothing dispatched any more: the lines
\* dispatched are never empty, and reading an empty line or the end of
\* input leaves them as they are and ends the program.
C16_StdinDispatch ==
    /\ [][pc = "readline" =>
            IF stdin # <<>> /\ Head(stdin) # "\n"
            THEN /\ dispatched' = Append(dispatched, Head(stdin))
                 /\ stdin' = Tail(stdin)
                 /\ pc' = "start_procs"
            ELSE /\ dispatched' = dispatched
                 /\ pc' = "done"]_vars
    /\ [](\A i \in DOMAIN dispatched : dispatched[i] # "\n")

Range(q) == {q[i] : i \in DOMAIN q}

\* C17: get_hosts returns exactly the keys of the store that the pattern
\* matches from their start, each once, whether or not the pattern reaches
\* the end of the key, and prints them sorted; pattern "web" on a store of
\* web1, web2 and db1 returns web1 and web2, printed in this order.
C17_PrefixSelection ==
    pc = "dispatch" =>
        /\ \A k \in Names :
              k \in Range(matched) <=>
                  /\ k \in Range(keys)
                  /\ Len(hostregex) <= Len(k)
                  /\ \A i \in 1..Len(hostregex) :
                        hostregex[i] \in {".", k[i]}
        /\ Cardinality(Range(matched)) = Len(matched)
        /\ Range(printed) = Range(matched)
        /\ Len(printed) = Len(matched)
        /\ \A i, j \in DOMAIN printed :
              i < j => StrLess(printed[i], printed[j])
        /\ (hostregex = web /\ Range(keys) = {web1, web2, db1}) =>
              /\ Range(matched) = {web1, web2}
              /\ printed = <<web1, web2>>

\* Pattern "web" on the store web2, db1, web1: returned in the order of the
\* store, printed sorted.
C17_Witness ==
    /\ pc = "dispatch"
    /\ hostregex = web
    /\ keys = <<web2, db1, web1>>
    /\ matched = <<web2, web1>>
    /\ printed = <<web1, web2>>

\* The lines of one stream among the first i lines of an Executor.
CountUpTo(h, stream, i) ==
    Cardinality({k \in 1..i : out[h][k].stream = stream})

\* C18: in the output of one Executor every stdout line comes before every
\* stderr line, stderr is read only after stdout has ended, every line of
\* the two streams is a string prefixed with the Executor's host, and the
\* lines of a stream are printed in the order the remote command wrote them.
C18_StdoutBeforeStderr ==
    \A h \in Hosts :
        /\ Count(h, "stderr") >= 1 => wpc[h] \notin {"connect", "exec_command", "stdout"}
        /\ \A i \in DOMAIN out[h] :
              out[h][i].stream \in {"stdout", "stderr"} =>
                  /\ HostPrefixed(out[h][i])
                  /\ out[h][i].host = h
                  /\ out[h][i].n = CountUpTo(h, out[h][i].stream, i)
                  /\ \A j \in DOMAIN out[h] :
                        (i < j /\ out[h][i].stream = "stderr") =>
                            out[h][j].stream # "stdout"

\* Two lines of stdout, then two lines of stderr.
C18_Witness ==
    \E h \in Hosts :
        /\ wpc[h] = "exited"
        /\ Len(out[h]) = 4
        /\ out[h][1].stream = "stdout" /\ out[h][2].stream = "stdout"
        /\ out[h][3].stream = "stderr" /\ out[h][4].stream = "stderr"
        /\ out[h][2].n = 2 /\ out[h][4].n = 2

\* C19: a user interrupt raised before the drain loop (at the start of an
\* Executor, in the join or the interval sleep) is not handled: the main
\* process ends with the exception, no Executor is stopped and no result is
\* printed.
C19_EarlyInterruptUnhandled ==
    sigint \in {"launch", "join", "interval_sleep"} =>
        /\ pc = "crashed"
        /\ fatal = "KeyboardInterrupt"
        /\ \A h \in Hosts : wpc[h] \notin {"signalled", "killed"}
        /\ ~Reported

\* The interrupt came in the join of a throttled dispatch; the Executor
\* joined on went on to exit by itself.
C19_Witness ==
    /\ sigint = "join"
    /\ pc = "crashed"
    /\ \E h \in Hosts : h \in running /\ wpc[h] = "exited"

\* C20: an Executor that terminates on its own does so with the exit code
\* _exec returned, which is 0 or 1, also when an exception was raised inside
\* the try that no except clause handled.
C20_ExitCodeZeroOrOne ==
    \A h \in Hosts :
        wpc[h] = "exited" =>
            /\ ExitCode(h) = Code(exitcode[h])
            /\ exitcode[h] \in {0, 1}

\* An exception no clause matches was raised after a stderr line: exit 1;
\* and the same with nothing read: exit 0.
C20_Witness ==
    /\ \E h \in Hosts :
          /\ wpc[h] = "exited"
          /\ raised[h] = "Other"
          /\ Count(h, "stderr") >= 1
          /\ ExitCode(h) = Code(1)
    /\ \E h \in Hosts :
          /\ wpc[h] = "exited"
          /\ raised[h] = "Other"
          /\ Count(h, "stderr") = 0
          /\ ExitCode(h) = Code(0)

====
